---- MODULE Spec2Model ----
(***************************************************************************)
(* Candidate scoring and top-K selection of ProTechTimeNow:                *)
(*   - OmnipresentRepoAnalyzer (simultaneous_processing/                   *)
(*     omnipresent_repo_analyzer.py): intent parsing, intent alignment,    *)
(*     the sorted analysis pass and _collapse_to_precision;                *)
(*   - QuantumHybridSearchClient (legacy_enhanced/quantum_hybrid_search.py)*)
(*     relevance, resonance, coordinates, synthesis, filter and collapse.  *)
(*                                                                         *)
(* Python strings are TLA+ strings and the string functions of the code    *)
(* (lower, split, "in", replace) are computed character by character.      *)
(* Floats are exact fixed-point integers: stored scores are hundredths,    *)
(* intent-vector weights are 1/VecScale, alignment scores 1/ScoreScale.    *)
(***************************************************************************)
EXTENDS Integers, Sequences, FiniteSets, TLC

(***************************************************************************)
(* Bounds of the model.                                                    *)
(***************************************************************************)
\* number of repositories in repository_quantum_space: 0..MaxRepos
MaxRepos == 5
\* max_results ranges over -1..MaxLimit
MaxLimit == 3
\* orchestrate_implementation is called at most MaxCalls times
MaxCalls == 2
\* _apply_consciousness_filter is called on lists of 0..MaxResults results
MaxResults == 4

(***************************************************************************)
(* Strings.                                                                *)
(***************************************************************************)
\* the characters the model's strings use, in code-point order
AsciiOrder == " -./0123456789:ABCDEFGHIJKLMNOPQRSTUVWXYZ_abcdefghijklmnopqrstuvwxyz"

Char(s, i) == SubSeq(s, i, i)

CharSet == {Char(AsciiOrder, i) : i \in 1..Len(AsciiOrder)}

\* ord(c), up to a monotone renumbering
Ord == [c \in CharSet |-> CHOOSE i \in 1..Len(AsciiOrder) : Char(AsciiOrder, i) = c]

\* str.lower() of one character: 'A'..'Z' move to 'a'..'z' ('_' lies between them)
LowerChar == [c \in CharSet |->
                IF Ord[c] >= Ord["A"] /\ Ord[c] <= Ord["Z"]
                THEN Char(AsciiOrder, Ord[c] + (Ord["a"] - Ord["A"]))
                ELSE c]

RECURSIVE Lower(_)
\* str.lower()
Lower(s) == IF s = "" THEN "" ELSE LowerChar[Char(s, 1)] \o Lower(SubSeq(s, 2, Len(s)))

\* Python's "sub in s"
Contains(sub, s) ==
    \E i \in 1..(Len(s) - Len(sub) + 1) : SubSeq(s, i, i + Len(sub) - 1) = sub

RECURSIVE SplitOn(_, _, _)
\* the tokens of s separated by the character sep, in order; cur is the token
\* being read.  keepEmpty distinguishes str.split(sep) from str.split().
SplitOn(s, sep, cur) ==
    IF s = "" THEN <<cur>>
    ELSE IF Char(s, 1) = sep
         THEN <<cur>> \o SplitOn(SubSeq(s, 2, Len(s)), sep, "")
         ELSE SplitOn(SubSeq(s, 2, Len(s)), sep, cur \o Char(s, 1))

\* str.split(sep)
SplitSep(s, sep) == SplitOn(s, sep, "")

\* str.split(): whitespace-separated tokens, empty tokens dropped
Split(s) == SelectSeq(SplitOn(s, " ", ""), LAMBDA t : t # "")

RECURSIVE Replace(_, _)
\* str.replace(sub, '')
Replace(s, sub) ==
    IF Len(s) < Len(sub) \/ s = "" THEN s
    ELSE IF SubSeq(s, 1, Len(sub)) = sub
         THEN Replace(SubSeq(s, Len(sub) + 1, Len(s)), sub)
         ELSE Char(s, 1) \o Replace(SubSeq(s, 2, Len(s)), sub)

RECURSIVE StrLess(_, _)
\* Python's a < b on strings (code-point lexicographic)
StrLess(a, b) ==
    IF b = "" THEN FALSE
    ELSE IF a = "" THEN TRUE
    ELSE IF Char(a, 1) = Char(b, 1)
         THEN StrLess(SubSeq(a, 2, Len(a)), SubSeq(b, 2, Len(b)))
         ELSE Ord[Char(a, 1)] < Ord[Char(b, 1)]

Range(f) == {f[x] : x \in DOMAIN f}

RECURSIVE SumOver(_, _)
\* sum(f[x] for x in S)
SumOver(S, f) ==
    IF S = {} THEN 0
    ELSE LET x == CHOOSE y \in S : TRUE IN f[x] + SumOver(S \ {x}, f)

Min(a, b) == IF a <= b THEN a ELSE b

(***************************************************************************)
(* OmnipresentRepoAnalyzer: data.                                          *)
(***************************************************************************)
\* units of the fixed-point numbers: the intent-vector weights are k/5, k/6
\* and hundredths, so 1/VecScale holds them exactly
VecScale == 5 * 6 * 10
ScoreScale == 100 * VecScale * 10
Hundredth == ScoreScale \div 100

\* the analysis_scope the model passes: the default of omnipresent_analysis
AnalysisScopes == {"OMNIPRESENT"}

\* self.consciousness_patterns
consciousness_patterns ==
    [security_excellence   |-> <<"security", "audit", "vulnerability", "protection", "safe">>,
     innovation_indicators |-> <<"innovative", "cutting-edge", "advanced", "novel", "breakthrough">>,
     integration_friendly  |-> <<"api", "sdk", "library", "framework", "plugin", "integration">>,
     community_strength    |-> <<"popular", "maintained", "active", "community", "contributors">>,
     documentation_quality |-> <<"documentation", "tutorial", "guide", "examples", "readme">>]

\* a RepositorySignature (last_analysis, a wall-clock stamp, is left out).
\* consciousness_score is in 1/ScoreScale, the other numbers in hundredths.
Signature(key, lang, cs, inn, stab, comm, sec, doc, syn, ic, qc, cx, imp, dinn) ==
    [repo_url |-> "https://github.com/" \o key,
     name |-> SplitSep(key, "/")[2],
     language_primary |-> lang,
     consciousness_score |-> cs * Hundredth,
     worthiness_matrix |-> [innovation |-> inn, stability |-> stab, community |-> comm,
                            security |-> sec, documentation |-> doc],
     synergy_potential |-> syn,
     integration_complexity |-> ic,
     quantum_coherence |-> qc,
     dimensional_coordinates |-> [complexity |-> cx, impact |-> imp, innovation |-> dinn]]

\* the repositories of _initialize_quantum_repository_space, in the insertion
\* order of the three update() calls
SeedKeys ==
    <<"ethereum/go-ethereum", "ConsenSys/mythril", "crytic/slither",
      "OpenZeppelin/openzeppelin-contracts", "langchain-ai/langchain",
      "microsoft/semantic-kernel", "OWASP/CheatSheetSeries", "trufflesecurity/trufflehog">>

SeedSignatures ==
    <<Signature(SeedKeys[1], "Go", 95, 90, 95, 85, 90, 80,
                <<"blockchain_core", "ethereum_ecosystem", "defi_foundation">>, 70, 92, 80, 95, 90),
      Signature(SeedKeys[2], "Python", 88, 85, 80, 75, 95, 85,
                <<"smart_contract_security", "vulnerability_analysis", "audit_tools">>, 50, 87, 60, 80, 85),
      Signature(SeedKeys[3], "Python", 89, 88, 85, 80, 92, 80,
                <<"static_analysis", "solidity_security", "vulnerability_detection">>, 40, 86, 50, 85, 88),
      Signature(SeedKeys[4], "Solidity", 93, 85, 95, 90, 98, 95,
                <<"smart_contract_foundation", "security_standards", "defi_building_blocks">>, 30, 94, 40, 95, 85),
      Signature(SeedKeys[5], "Python", 91, 95, 80, 85, 75, 90,
                <<"ai_workflows", "consciousness_enhancement", "language_processing">>, 60, 89, 70, 90, 95),
      Signature(SeedKeys[6], "C#", 87, 90, 85, 80, 85, 88,
                <<"ai_orchestration", "semantic_understanding", "consciousness_alignment">>, 65, 85, 65, 85, 90),
      Signature(SeedKeys[7], "Markdown", 85, 70, 90, 95, 98, 95,
                <<"security_knowledge", "best_practices", "vulnerability_prevention">>, 20, 83, 30, 90, 70),
      Signature(SeedKeys[8], "Go", 82, 80, 85, 75, 92, 80,
                <<"secret_detection", "security_scanning", "vulnerability_prevention">>, 40, 81, 40, 80, 80)>>

\* Other signatures a store may hold under a seed key: one whose every number
\* is 0, and one whose every number is 1.0 except a complexity of 0.9.
ZeroSignature(k) ==
    [SeedSignatures[k] EXCEPT
        !.consciousness_score = 0,
        !.worthiness_matrix = [c \in DOMAIN @ |-> 0],
        !.synergy_potential = <<>>,
        !.integration_complexity = 0,
        !.quantum_coherence = 0,
        !.dimensional_coordinates = [c \in DOMAIN @ |-> 0]]

FullSignature(k) ==
    [SeedSignatures[k] EXCEPT
        !.consciousness_score = ScoreScale,
        !.worthiness_matrix = [security |-> 100, integration |-> 100, quality |-> 100],
        !.synergy_potential = <<"security_core", "integration_hub", "quality_gate">>,
        !.integration_complexity = 90,
        !.quantum_coherence = 100,
        !.dimensional_coordinates = [c \in DOMAIN @ |-> 100]]

SignatureChoices(k) == <<SeedSignatures[k], ZeroSignature(k), FullSignature(k)>>

\* the stores the model starts from: the first n seed keys, in the seed's
\* insertion order (a dict keeps it), each holding one of the signatures above
Stores ==
    {[i \in DOMAIN pick |-> [key |-> SeedKeys[i], signature |-> SignatureChoices(i)[pick[i]]]] :
        pick \in UNION {[1..n -> 1..3] : n \in 0..MaxRepos}}

\* the user_intent strings the model passes
Intents == {"", "Best SECURITY audit tools", "integrate best secure api"}

\* the max_results values the model passes
Limits == (-1)..MaxLimit

(***************************************************************************)
(* OmnipresentRepoAnalyzer: operations.                                    *)
(***************************************************************************)
\* weights of the focus vectors, in hundredths
SecurityFocus == 90
IntegrationFocus == 80
QualityFocus == 85
AiEnhancementFocus == 80

\* the test with its operands exchanged: intent_lower in word
AnyInSwapped(words, text) == \E i \in 1..Len(words) : Contains(text, words[i])

\* any(word in intent_lower for word in words)
AnyIn(words, text) == \E i \in 1..Len(words) : Contains(words[i], text)

\* _parse_intent_vectors: a dict from vector name to weight (1/VecScale)
parse_intent_vectors(user_intent) ==
    LET intent_lower == Lower(user_intent)
        patterns == [pattern_name \in DOMAIN consciousness_patterns |->
            LET keywords == consciousness_patterns[pattern_name]
                alignment == Cardinality({i \in 1..Len(keywords) :
                                            Contains(keywords[i], intent_lower)})
            IN (alignment * VecScale) \div Len(keywords)]
        focus(name, words, weight) ==
            IF AnyIn(words, intent_lower)
            THEN (name :> (weight * (VecScale \div 100)))
            ELSE <<>>
    IN  focus("security_focus", <<"security", "secure", "audit", "vulnerability">>, SecurityFocus)
        @@ focus("integration_focus", <<"integrate", "integration", "api", "sdk">>, IntegrationFocus)
        @@ focus("quality_focus", <<"best", "top", "recommended", "excellent">>, QualityFocus)
        @@ focus("ai_enhancement_focus", <<"ai", "ml", "intelligence", "consciousness">>, AiEnhancementFocus)
        @@ patterns

\* parse_intent_vectors of every intent the model passes, computed once
IntentVectorsOf == [user_intent \in Intents |-> parse_intent_vectors(user_intent)]

\* weights of _calculate_intent_alignment, in tenths
BaseWeight == 3
PatternWeight == 2
WorthinessWeight == 1
CoherenceWeight == 2

\* every vector name _parse_intent_vectors can produce
VectorNames ==
    DOMAIN consciousness_patterns
        \cup {"security_focus", "integration_focus", "quality_focus", "ai_enhancement_focus"}

\* pattern_name.replace('_focus', ''), computed once per name
StrippedName == [pattern_name \in VectorNames |-> Replace(pattern_name, "_focus")]

\* every synergy_potential entry of the model's signatures
SynergyNames ==
    UNION {Range(SignatureChoices(k)[c].synergy_potential) : k \in 1..Len(SeedKeys), c \in 1..3}

\* sf.split('_')[0], computed once per entry
SynergyHead == [sf \in SynergyNames |-> SplitSep(sf, "_")[1]]

\* the factors of _calculate_intent_alignment, summed
AlignmentSum(repo_signature, intent_vectors) ==
    LET heads == {SynergyHead[sf] : sf \in Range(repo_signature.synergy_potential)}
        base == (repo_signature.consciousness_score * BaseWeight) \div 10
        pattern == [pattern_name \in DOMAIN intent_vectors |->
            IF StrippedName[pattern_name] \in heads
            THEN (intent_vectors[pattern_name] * (ScoreScale \div VecScale) * PatternWeight) \div 10
            ELSE 0]
        worthiness == [criterion \in DOMAIN repo_signature.worthiness_matrix |->
            IF (criterion \o "_focus") \in DOMAIN intent_vectors
            THEN (repo_signature.worthiness_matrix[criterion]
                    * intent_vectors[criterion \o "_focus"]
                    * (ScoreScale \div (100 * VecScale)) * WorthinessWeight) \div 10
            ELSE 0]
        coherence == (repo_signature.quantum_coherence * Hundredth * CoherenceWeight) \div 10
    IN base + SumOver(DOMAIN pattern, pattern)
            + SumOver(DOMAIN worthiness, worthiness) + coherence

\* the sum returned without the min(..., 1.0)
calculate_intent_alignment_unclipped(repo_signature, intent_vectors) ==
    AlignmentSum(repo_signature, intent_vectors)

\* _calculate_intent_alignment: min(sum(alignment_factors), 1.0), in 1/ScoreScale
calculate_intent_alignment(repo_signature, intent_vectors) ==
    Min(AlignmentSum(repo_signature, intent_vectors), ScoreScale)

\* _update_signature_with_analysis, the object it returns: a new
\* RepositorySignature with copies of the dict and list fields
update_signature_with_analysis(repo_signature, alignment_score) ==
    [repo_signature EXCEPT !.consciousness_score = alignment_score]

\* the stored object had the score been assigned to it in place
StoredAfterUpdateInPlace(repo_signature, alignment_score) ==
    [repo_signature EXCEPT !.consciousness_score = alignment_score]

\* _update_signature_with_analysis, what it leaves in the stored object: it
\* assigns to no field of repo_signature and mutates none of its containers
StoredAfterUpdate(repo_signature, alignment_score) ==
    repo_signature

RECURSIVE InsertDesc(_, _)
\* sorted (descending key, stable) with p put after every element whose key
\* is not smaller
InsertDesc(sorted, p) ==
    IF sorted = <<>> THEN <<p>>
    ELSE IF Head(sorted).key >= p.key
         THEN <<Head(sorted)>> \o InsertDesc(Tail(sorted), p)
         ELSE <<p>> \o sorted

RECURSIVE SortKeyed(_)
SortKeyed(ps) ==
    IF ps = <<>> THEN <<>>
    ELSE InsertDesc(SortKeyed(SubSeq(ps, 1, Len(ps) - 1)), ps[Len(ps)])

\* list.sort(key=..., reverse=True), keys[i] being the key of rs[i]: the key
\* of each item is computed once, the order is descending and stable (equal
\* keys keep their order, also under reverse=True)
SortDesc(rs, keys) ==
    LET sorted == SortKeyed([i \in DOMAIN rs |-> [key |-> keys[i], item |-> rs[i]]])
    IN [i \in DOMAIN sorted |-> sorted[i].item]

\* _simultaneous_repository_analysis: the scored copies, sorted
simultaneous_repository_analysis(space, intent_vectors) ==
    LET analyzed_repos ==
            [i \in DOMAIN space |->
                update_signature_with_analysis(
                    space[i].signature,
                    calculate_intent_alignment(space[i].signature, intent_vectors))]
    IN SortDesc(analyzed_repos,
                [i \in DOMAIN analyzed_repos |-> analyzed_repos[i].consciousness_score])

\* seq[:n] of Python
SliceTo(seq, n) ==
    IF n >= 0 THEN SubSeq(seq, 1, Min(n, Len(seq)))
    ELSE SubSeq(seq, 1, Len(seq) + n)

\* thresholds of _collapse_to_precision, in hundredths
QualityThreshold == 70
ComplexityThreshold == 80
RelaxedThreshold == 50

\* the primary filter of _collapse_to_precision
PassesPrimary(repo) ==
    /\ repo.consciousness_score >= QualityThreshold * Hundredth
    /\ repo.integration_complexity <= ComplexityThreshold

\* the relaxed filter of _collapse_to_precision
PassesRelaxed(repo) ==
    repo.consciousness_score >= RelaxedThreshold * Hundredth

\* the filtered list returned whole, without the [:max_results]
collapse_to_precision_unsliced(analysis_results, max_results) ==
    LET primary == SelectSeq(analysis_results, PassesPrimary)
    IN IF Len(primary) < max_results
       THEN SelectSeq(analysis_results, PassesRelaxed)
       ELSE primary

\* the relaxed filter applied to the survivors of the primary filter
collapse_to_precision_refilter_survivors(analysis_results, max_results) ==
    LET primary == SelectSeq(analysis_results, PassesPrimary)
        filtered_results ==
            IF Len(primary) < max_results
            THEN SelectSeq(primary, PassesRelaxed)
            ELSE primary
    IN SliceTo(filtered_results, max_results)

\* _collapse_to_precision
collapse_to_precision(analysis_results, max_results) ==
    LET primary == SelectSeq(analysis_results, PassesPrimary)
        filtered_results ==
            IF Len(primary) < max_results
            THEN SelectSeq(analysis_results, PassesRelaxed)
            ELSE primary
    IN SliceTo(filtered_results, max_results)

(***************************************************************************)
(* QuantumHybridSearchClient: data.                                        *)
(***************************************************************************)
\* unit of the client's fixed-point numbers (relevance, resonance, coordinates):
\* sixteenths, 1/1500 and, for queries of 0, 1 or 3 words, tenths of
\* 1/(words + 5) are whole multiples of 1/SearchScale
SearchScale == 16 * 3750

QuantumSearchModes == {"LEGACY", "ENHANCED", "QUANTUM", "UNIFIED"}
SearchDimensions == {"THIRD_D", "FOURTH_D", "QUANTUM"}

\* self.quantum_search_patterns
quantum_search_patterns ==
    [blockchain_consciousness |-> <<"consciousness", "aware", "intelligent", "quantum">>,
     repository_synergy       |-> <<"integration", "synergy", "compatible", "enhanced">>,
     dimensional_thinking     |-> <<"fourth-dimensional", "multi-dimensional", "paradox", "quantum">>,
     security_patterns        |-> <<"security", "audit", "vulnerability", "protection">>]

\* the reality layers of _fourth_dimensional_search, in task order
RealityLayers ==
    <<"blockchain_universe", "developer_consciousness",
      "repository_collective", "security_dimension">>

\* _enhance_query_for_layer
enhance_query_for_layer(query, reality_layer) ==
    CASE reality_layer = "blockchain_universe" -> query \o " blockchain ethereum solidity defi"
      [] reality_layer = "developer_consciousness" -> query \o " github repository developer open source"
      [] reality_layer = "repository_collective" -> query \o " integration API library framework"
      [] reality_layer = "security_dimension" -> query \o " security audit vulnerability assessment"
      [] OTHER -> query

\* _web_search_fallback
web_search_fallback(query) ==
    <<[title |-> "Quantum Search Result for: " \o query,
       url |-> "https://github.com/search",
       content |-> "Quantum-enhanced search results would appear here",
       source |-> "quantum_web_search"]>>

\* result dicts a SearXNG instance may return (they carry no 'source' key)
RawRich ==
    [title |-> "Quantum security audit API and SDK integration framework library",
     url |-> "https://github.com/ConsenSys/mythril",
     content |-> "Intelligent vulnerability protection with consciousness aware enhanced synergy"]
RawPlain ==
    [title |-> "Hello world",
     url |-> "https://example.org/hello",
     content |-> "nothing relevant here"]
RawMid ==
    [title |-> "Security audit guide",
     url |-> "https://owasp.org/audit",
     content |-> "audit checklist"]

\* what the SearXNG instance does with the request of one layer: the request
\* fails (requests.exceptions.RequestException), the JSON body is an array,
\* not an object (data.get raises AttributeError), or the JSON carries 'results'
SearxngResponses ==
    {[error |-> "RequestException", results |-> <<>>],
     [error |-> "AttributeError", results |-> <<>>],
     [error |-> "", results |-> <<RawRich, RawPlain>>],
     [error |-> "", results |-> <<RawPlain, RawMid>>]}

\* the query strings the model passes (0 and 3 words)
Queries == {"", "Quantum security audit"}

\* dict.get(key, default)
Get(d, key, default) == IF key \in DOMAIN d THEN d[key] ELSE default

(***************************************************************************)
(* QuantumHybridSearchClient: operations.                                  *)
(***************************************************************************)
\* the keywords of pattern_name found in the title or the content
PatternMatches(result, pattern_name) ==
    LET keywords == quantum_search_patterns[pattern_name]
        title == Lower(Get(result, "title", ""))
        content == Lower(Get(result, "content", ""))
    IN Cardinality({i \in 1..Len(keywords) :
                        Contains(keywords[i], title) \/ Contains(keywords[i], content)})

\* _calculate_quantum_relevance, in 1/SearchScale
calculate_quantum_relevance(result, query) ==
    LET query_words == Range(Split(Lower(query)))
        title_match == Cardinality(query_words \cap Range(Split(Lower(Get(result, "title", "")))))
        content_match == Cardinality(query_words \cap Range(Split(Lower(Get(result, "content", "")))))
        base_relevance ==
            ((title_match * 2 + content_match) * SearchScale) \div (Len(Split(query)) + 5)
        matches == [pattern_name \in DOMAIN quantum_search_patterns |->
                        PatternMatches(result, pattern_name)]
        consciousness_boost == SumOver(DOMAIN matches, matches) * (SearchScale \div 10)
    IN Min(base_relevance + consciousness_boost, SearchScale)

\* _calculate_consciousness_resonance, in 1/SearchScale
calculate_consciousness_resonance(result) ==
    LET sizes == [pattern_name \in DOMAIN quantum_search_patterns |->
                        Len(quantum_search_patterns[pattern_name])]
        matches == [pattern_name \in DOMAIN quantum_search_patterns |->
                        PatternMatches(result, pattern_name)]
        total_indicators == SumOver(DOMAIN sizes, sizes)
        consciousness_indicators == SumOver(DOMAIN matches, matches)
    IN IF total_indicators > 0
       THEN (consciousness_indicators * SearchScale) \div total_indicators
       ELSE 0

\* _calculate_dimensional_coordinates, in 1/SearchScale
calculate_dimensional_coordinates(result) ==
    LET title_complexity == (Len(Get(result, "title", "")) * SearchScale) \div 100
        content_depth == (Len(Get(result, "content", "")) * SearchScale) \div 500
        url_sophistication == (Len(Get(result, "url", "")) * SearchScale) \div 100
    IN [complexity |-> Min(title_complexity, SearchScale),
        depth |-> Min(content_depth, SearchScale),
        sophistication |-> Min(url_sophistication, SearchScale),
        consciousness |-> (title_complexity + content_depth + url_sophistication) \div 3]

\* _identify_synergy_factors
identify_synergy_factors(result) ==
    LET integration_keywords == <<"api", "sdk", "library", "framework", "integration">>
        title == Lower(Get(result, "title", ""))
        content == Lower(Get(result, "content", ""))
        found(i) == Contains(integration_keywords[i], title)
                        \/ Contains(integration_keywords[i], content)
        integration == SelectSeq([i \in 1..Len(integration_keywords) |->
                                    IF found(i) THEN "integration_" \o integration_keywords[i]
                                    ELSE ""],
                                 LAMBDA f : f # "")
        names == <<"blockchain_consciousness", "repository_synergy",
                   "dimensional_thinking", "security_patterns">>
        consciousness == SelectSeq([i \in 1..Len(names) |->
                                    IF PatternMatches(result, names[i]) >= 2
                                    THEN "consciousness_" \o names[i] ELSE ""],
                                   LAMBDA f : f # "")
    IN integration \o consciousness

\* the QuantumSearchResult _search_reality_layer builds of one raw result
\* (quantum_signature, an md5 digest, is left out)
QuantumSearchResult(result, query, reality_layer) ==
    [title |-> Get(result, "title", ""),
     url |-> Get(result, "url", ""),
     snippet |-> Get(result, "snippet", Get(result, "content", "")),
     source |-> Get(result, "source", "unknown") \o "_" \o reality_layer,
     relevance_score |-> calculate_quantum_relevance(result, query),
     consciousness_resonance |-> calculate_consciousness_resonance(result),
     dimensional_coordinates |-> calculate_dimensional_coordinates(result),
     synergy_factors |-> identify_synergy_factors(result),
     metadata |-> [reality_layer |-> reality_layer]]

\* _search_reality_layer: the QuantumSearchResult list of one layer, given
\* the raw results its search returned
search_reality_layer(query, reality_layer, raw_results) ==
    [i \in DOMAIN raw_results |-> QuantumSearchResult(raw_results[i], query, reality_layer)]

\* _searxng_search, given what the instance does with the request: a
\* RequestException is caught and gives [], any other exception leaves the
\* method
searxng_search(response) ==
    IF response.error = "RequestException" THEN [raised |-> "", results |-> <<>>]
    ELSE IF response.error # "" THEN [raised |-> response.error, results |-> <<>>]
    ELSE [raised |-> "", results |-> response.results]

\* the raw results of one layer: _searxng_search if available, else the fallback
RawResultsOf(query, reality_layer, available, response) ==
    IF available
    THEN searxng_search(response)
    ELSE [raised |-> "",
          results |-> web_search_fallback(enhance_query_for_layer(query, reality_layer))]

\* search_reality_layer of every (query, layer, raw list) of the model, computed once
LayerResultsOf ==
    [c \in UNION {{<<q, l, RawResultsOf(q, RealityLayers[l], a, r).results>> :
                        a \in BOOLEAN, r \in SearxngResponses} :
                  q \in Queries, l \in 1..Len(RealityLayers)} |->
        search_reality_layer(c[1], RealityLayers[c[2]], c[3])]

RECURSIVE Dedup(_, _)
\* the results whose url is not in seen_urls and was not met earlier in the list
Dedup(all_results, seen_urls) ==
    IF all_results = <<>> THEN <<>>
    ELSE IF Head(all_results).url \in seen_urls
         THEN Dedup(Tail(all_results), seen_urls)
         ELSE <<Head(all_results)>>
                \o Dedup(Tail(all_results), seen_urls \cup {Head(all_results).url})

RECURSIVE Extend(_)
\* all_results after the extend() loop: the lists of the layers that did not
\* raise, concatenated in layer order
Extend(reality_layer_results) ==
    IF reality_layer_results = <<>> THEN <<>>
    ELSE (IF Head(reality_layer_results).raised = ""
          THEN Head(reality_layer_results).results ELSE <<>>)
            \o Extend(Tail(reality_layer_results))

\* a synthesis that concatenates the layers' lists and removes nothing
synthesize_dimensional_results_concatenated(reality_layer_results) ==
    Extend(reality_layer_results)

\* _synthesize_dimensional_results
synthesize_dimensional_results(reality_layer_results) ==
    Dedup(Extend(reality_layer_results), {})

\* thresholds of _apply_consciousness_filter, in hundredths, and the count
\* below which the threshold is lowered
ConsciousnessThreshold == 30
LoweredThreshold == 10
MinFiltered == 3

\* a filter without the fallback to all results
apply_consciousness_filter_without_fallback(results, consciousness_filter_active) ==
    LET at_least(threshold) ==
            SelectSeq(results, LAMBDA result :
                result.consciousness_resonance >= threshold * (SearchScale \div 100))
        strict == at_least(ConsciousnessThreshold)
    IN IF ~consciousness_filter_active THEN results
       ELSE IF Len(strict) < MinFiltered THEN at_least(LoweredThreshold) ELSE strict

\* _apply_consciousness_filter
apply_consciousness_filter(results, consciousness_filter_active) ==
    LET at_least(threshold) ==
            SelectSeq(results, LAMBDA result :
                result.consciousness_resonance >= threshold * (SearchScale \div 100))
        strict == at_least(ConsciousnessThreshold)
        filtered_results ==
            IF Len(strict) < MinFiltered THEN at_least(LoweredThreshold) ELSE strict
    IN IF ~consciousness_filter_active THEN results
       ELSE IF filtered_results # <<>> THEN filtered_results ELSE results

\* weights of quantum_score, in tenths
RelevanceWeight == 4
ResonanceWeight == 3
SynergyWeight == 1
DimensionWeight == 2

\* quantum_score of _collapse_to_precision, in 1/(10 * SearchScale)
quantum_score(result) ==
    result.relevance_score * RelevanceWeight
        + result.consciousness_resonance * ResonanceWeight
        + Len(result.synergy_factors) * SearchScale * SynergyWeight
        + Get(result.dimensional_coordinates, "consciousness", 0) * DimensionWeight

\* QuantumHybridSearchClient._collapse_to_precision
search_collapse_to_precision(results, max_results) ==
    SliceTo(SortDesc(results, [i \in DOMAIN results |-> quantum_score(results[i])]),
            max_results)

\* the outcomes of the search tasks, one per reality layer, in task order:
\* the list the task returned, or the exception that ended it
reality_layer_results(query, available, index) ==
    [l \in 1..Len(RealityLayers) |->
        LET raw_results == RawResultsOf(query, RealityLayers[l], available, index[l])
        IN [raised |-> raw_results.raised,
            results |-> IF raw_results.raised = ""
                        THEN LayerResultsOf[<<query, l, raw_results.results>>]
                        ELSE <<>>]]

\* the first exception among task outcomes, "" if none raised
FirstRaised(outcomes) ==
    LET failed == SelectSeq(outcomes, LAMBDA o : o.raised # "")
    IN IF failed = <<>> THEN "" ELSE failed[1].raised

\* asyncio.gather(*tasks) without return_exceptions: the first exception of
\* a task is raised to the caller
gather_propagating(outcomes) ==
    [raised |-> FirstRaised(outcomes), value |-> outcomes]

\* asyncio.gather(*search_tasks, return_exceptions=True): exceptions are
\* entries of the returned list, nothing is raised
gather(outcomes) ==
    [raised |-> "", value |-> outcomes]

\* _fourth_dimensional_search: what it raises, if anything, and the list it
\* returns
fourth_dimensional_search(query, consciousness_filter, max_results, available, filter_active, index) ==
    LET gathered == gather(reality_layer_results(query, available, index))
        synthesized_results == synthesize_dimensional_results(gathered.value)
        filtered == IF consciousness_filter
                    THEN apply_consciousness_filter(synthesized_results, filter_active)
                    ELSE synthesized_results
    IN IF gathered.raised # ""
       THEN [raised |-> gathered.raised, results |-> <<>>]
       ELSE [raised |-> "", results |-> search_collapse_to_precision(filtered, max_results)]

\* quantum_search: what the call raises, if anything, and the list it returns.
\* The two methods the other branches call are defined nowhere in the class.
quantum_search(query, search_dimension, consciousness_filter, max_results, available, filter_active, awareness, index) ==
    IF search_dimension = "FOURTH_D" /\ awareness
    THEN fourth_dimensional_search(query, consciousness_filter, max_results,
                                   available, filter_active, index)
    ELSE [raised |-> "AttributeError", results |-> <<>>]

(***************************************************************************)
(* OB1WorkspaceMigrator (scripts/migrate_from_ob1_workspace.py).           *)
(*                                                                         *)
(* A path is an absolute string.  The file system is a record: dirs, the   *)
(* set of directories, and files, the content of each regular file.  A     *)
(* content is a sequence of text blocks.  A running call is a record       *)
(* [raised, fs, log]: the exception that is propagating ("" for none),     *)
(* the file system so far and the phases of migrate_workspace run so far;  *)
(* every statement leaves a call that is already raising as it is.         *)
(***************************************************************************)
\* str.rfind(c), counted from 1: 0 when c does not occur in s
rfind(s, c) ==
    CHOOSE i \in 0..Len(s) :
        /\ i = 0 \/ Char(s, i) = c
        /\ \A j \in (i + 1)..Len(s) : Char(s, j) # c

\* Path.parent, Path.name, Path.suffix and Path.stem
PathParent(p) == SubSeq(p, 1, rfind(p, "/") - 1)

PathName(p) == SubSeq(p, rfind(p, "/") + 1, Len(p))

PathSuffix(p) ==
    LET name == PathName(p)
        i == rfind(name, ".")
    IN IF 1 < i /\ i < Len(name) THEN SubSeq(name, i, Len(name)) ELSE ""

PathStem(p) ==
    LET name == PathName(p)
        i == rfind(name, ".")
    IN IF 1 < i /\ i < Len(name) THEN SubSeq(name, 1, i - 1) ELSE name

\* the operator / of Path
PathJoin(p, relative) == p \o "/" \o relative

\* p is root or lies below it
IsUnder(p, root) ==
    \/ p = root
    \/ Len(p) > Len(root) /\ SubSeq(p, 1, Len(root) + 1) = root \o "/"

\* the directories above p, the file-system root left out
PathParents(p) == {SubSeq(p, 1, i - 1) : i \in {j \in 2..Len(p) : Char(p, j) = "/"}}

\* Path.exists()
PathExists(fs, p) == p \in fs.dirs \/ p \in DOMAIN fs.files

\* the call after an exception is raised in it
Raise(st, exception) == IF st.raised # "" THEN st ELSE [st EXCEPT !.raised = exception]

\* a call of a method the class does not define
UndefinedMethod(st) == Raise(st, "AttributeError")

\* Path.mkdir(parents=True, exist_ok=True)
mkdir_parents(st, p) ==
    IF st.raised # "" THEN st
    ELSE IF (PathParents(p) \cup {p}) \cap DOMAIN st.fs.files # {}
    THEN Raise(st, "FileExistsError")
    ELSE [st EXCEPT !.fs.dirs = @ \cup PathParents(p) \cup {p}]

\* Path.mkdir(exist_ok=True)
mkdir(st, p) ==
    IF st.raised # "" THEN st
    ELSE IF p \in DOMAIN st.fs.files THEN Raise(st, "FileExistsError")
    ELSE IF PathParent(p) \notin st.fs.dirs THEN Raise(st, "FileNotFoundError")
    ELSE [st EXCEPT !.fs.dirs = @ \cup {p}]

\* Path.write_text(content), and open(path, 'w') with a write
write_text(st, p, content) ==
    IF st.raised # "" THEN st
    ELSE IF p \in st.fs.dirs THEN Raise(st, "IsADirectoryError")
    ELSE IF PathParent(p) \in DOMAIN st.fs.files THEN Raise(st, "NotADirectoryError")
    ELSE IF PathParent(p) \notin st.fs.dirs THEN Raise(st, "FileNotFoundError")
    ELSE [st EXCEPT !.fs.files = (p :> content) @@ @]

\* shutil.copy2(src, dst) of a regular file src
copy2(st, src, dst) ==
    LET dest == IF dst \in st.fs.dirs THEN PathJoin(dst, PathName(src)) ELSE dst
    IN IF st.raised # "" THEN st
       ELSE IF src = dest THEN Raise(st, "SameFileError")
       ELSE IF src \in st.fs.dirs THEN Raise(st, "IsADirectoryError")
       ELSE IF src \notin DOMAIN st.fs.files THEN Raise(st, "FileNotFoundError")
       ELSE write_text(st, dest, st.fs.files[src])

\* shutil.rmtree(path)
rmtree(st, path) ==
    IF st.raised # "" THEN st
    ELSE IF path \in DOMAIN st.fs.files THEN Raise(st, "NotADirectoryError")
    ELSE IF path \notin st.fs.dirs THEN Raise(st, "FileNotFoundError")
    ELSE [st EXCEPT !.fs = [dirs |-> {d \in @.dirs : ~IsUnder(d, path)},
                            files |-> [f \in {g \in DOMAIN @.files : ~IsUnder(g, path)} |->
                                          @.files[f]]]]

\* the path under dst that copytree gives the path p under src
Relocated(p, src, dst) == dst \o SubSeq(p, Len(src) + 1, Len(p))

\* shutil.copytree(src, dst)
copytree(st, src, dst) ==
    LET copied_dirs == {d \in st.fs.dirs : IsUnder(d, src)}
        copied_files == {f \in DOMAIN st.fs.files : IsUnder(f, src)}
        new_files == {Relocated(f, src, dst) : f \in copied_files}
    IN IF st.raised # "" THEN st
       ELSE IF src \in DOMAIN st.fs.files THEN Raise(st, "NotADirectoryError")
       ELSE IF src \notin st.fs.dirs THEN Raise(st, "FileNotFoundError")
       ELSE IF PathExists(st.fs, dst) THEN Raise(st, "FileExistsError")
       ELSE [st EXCEPT !.fs =
                [dirs |-> @.dirs \cup PathParents(dst)
                                 \cup {Relocated(d, src, dst) : d \in copied_dirs},
                 files |-> [f \in new_files |->
                               @.files[CHOOSE g \in copied_files : Relocated(g, src, dst) = f]]
                           @@ @.files]]

\* self.migration_mapping, in the order of the dict
migration_mapping ==
    << <<"code/universal_file_analyzer.py", "legacy_enhanced/quantum_universal_analyzer.py">>,
       <<"code/hybrid_search_client.py", "legacy_enhanced/quantum_hybrid_search.py">>,
       <<"code/searxng_client.py", "legacy_enhanced/enhanced_searxng_client.py">>,
       <<"code/searxng_integration.py", "legacy_enhanced/enhanced_searxng_integration.py">>,
       <<"platform/docker-compose.yml", "deployment/docker-compose.quantum.yml">>,
       <<"platform/.env.template", ".env.template">> >>

\* a validation that warns about a missing source workspace as it does about
\* missing core files
validate_source_workspace_warning(st, self) == st

\* _validate_source_workspace: a missing source raises, missing core files
\* are only printed
validate_source_workspace(st, self) ==
    IF ~PathExists(st.fs, self.source_workspace) THEN Raise(st, "FileNotFoundError") ELSE st

\* the directories of _create_target_structure, main ones first
TargetDirectories ==
    <<"fourth_dimension", "quantum_intelligence", "simultaneous_processing",
      "practical_manifestation", "legacy_enhanced", "deployment", "docs", "examples",
      "scripts", "tests", "uploads", "outputs", "logs", "cache", "consciousness_data">>

RECURSIVE MkdirAll(_, _, _)
\* the two loops of _create_target_structure
MkdirAll(st, root, directories) ==
    IF directories = <<>> THEN st
    ELSE MkdirAll(mkdir_parents(st, PathJoin(root, Head(directories))), root, Tail(directories))

\* _create_target_structure
create_target_structure(st, self) == MkdirAll(st, self.target_workspace, TargetDirectories)

\* _add_consciousness_header: header + content
add_consciousness_header(content, filename) == <<"consciousness header of " \o filename>> \o content

\* _enhance_universal_file_analyzer: the generated text names the source
\* path; nothing of the original content goes into it but its import lines
enhance_universal_file_analyzer(st, source_path, target_path) ==
    IF st.raised # "" THEN st
    ELSE IF source_path \notin DOMAIN st.fs.files THEN Raise(st, "IsADirectoryError")
    ELSE write_text(st, target_path, <<"quantum universal analyzer from " \o source_path>>)

\* _enhance_file: the enhancers of hybrid_search_client.py, docker-compose.yml
\* and .env.template are called and not defined
enhance_file(st, source_path, target_path) ==
    LET made == mkdir_parents(st, PathParent(target_path))
        name == PathName(source_path)
    IN IF name = "universal_file_analyzer.py"
       THEN enhance_universal_file_analyzer(made, source_path, target_path)
       ELSE IF name \in {"hybrid_search_client.py", "docker-compose.yml", ".env.template"}
       THEN UndefinedMethod(made)
       ELSE IF made.raised # "" THEN made
       ELSE IF source_path \notin DOMAIN made.fs.files THEN Raise(made, "IsADirectoryError")
       ELSE write_text(made, target_path,
                       add_consciousness_header(made.fs.files[source_path], name))

\* the body of the loop of _migrate_core_files for one entry of the mapping;
\* _create_default_enhanced_file is called and not defined
migrate_core_file(st, self, entry, preserve_originals) ==
    LET source_path == PathJoin(self.source_workspace, entry[1])
        target_path == PathJoin(self.target_workspace, entry[2])
        original_target == PathJoin(PathParent(target_path),
                                    PathStem(target_path) \o "_original" \o PathSuffix(target_path))
    IN IF st.raised # "" THEN st
       ELSE IF PathExists(st.fs, source_path)
       THEN enhance_file(IF preserve_originals THEN copy2(st, source_path, original_target) ELSE st,
                         source_path, target_path)
       ELSE UndefinedMethod(st)

\* the data directories of _migrate_data_files
DataDirectories == <<"uploads", "outputs", "logs", "data-files", "smart-contracts", "documents">>

\* the body of the loop of _migrate_data_files for one directory
migrate_data_directory(st, self, data_dir) ==
    LET source_dir == PathJoin(self.source_workspace, data_dir)
        target_dir == PathJoin(self.target_workspace, data_dir)
    IN IF st.raised # "" \/ ~PathExists(st.fs, source_dir) THEN st
       ELSE copytree(IF PathExists(st.fs, target_dir) THEN rmtree(st, target_dir) ELSE st,
                     source_dir, target_dir)

RECURSIVE migrate_data_files(_, _, _)
\* _migrate_data_files, from the i-th data directory on
migrate_data_files(st, self, i) ==
    IF i > Len(DataDirectories) THEN st
    ELSE migrate_data_files(migrate_data_directory(st, self, DataDirectories[i]), self, i + 1)

RECURSIVE migrate_mapping(_, _, _, _)
\* the loop of _migrate_core_files, from the i-th entry of the mapping on
migrate_mapping(st, self, i, preserve_originals) ==
    IF i > Len(migration_mapping) THEN st
    ELSE migrate_mapping(migrate_core_file(st, self, migration_mapping[i], preserve_originals),
                         self, i + 1, preserve_originals)

\* _migrate_core_files
migrate_core_files(st, self, preserve_originals) ==
    migrate_data_files(migrate_mapping(st, self, 1, preserve_originals), self, 1)

\* _apply_quantum_enhancements: _create_consciousness_alignment writes its
\* file, _create_thought_sphere_processor is called and not defined
apply_quantum_enhancements(st, self) ==
    UndefinedMethod(
        write_text(st, PathJoin(self.target_workspace, "quantum_intelligence/consciousness_alignment.py"),
                   <<"consciousness alignment engine">>))

\* _setup_enhanced_configuration: the fixed text replaces .env.template
setup_enhanced_configuration(st, self) ==
    write_text(st, PathJoin(self.target_workspace, ".env.template"), <<"enhanced configuration">>)

\* _create_compatibility_layer
create_compatibility_layer(st, self) ==
    LET compat_file == PathJoin(self.target_workspace, "scripts/compatibility_layer.py")
    IN write_text(mkdir(st, PathParent(compat_file)), compat_file, <<"compatibility layer">>)

\* _generate_migration_report
generate_migration_report(st, self) ==
    write_text(st, PathJoin(self.target_workspace, "migration_report.json"), <<"migration report">>)

\* the phases of the try block of migrate_workspace, in order
PhasesOf(enable_quantum_features) ==
    <<"validate_source_workspace", "create_target_structure", "migrate_core_files">>
    \o (IF enable_quantum_features THEN <<"apply_quantum_enhancements">> ELSE <<>>)
    \o <<"setup_enhanced_configuration", "create_compatibility_layer",
         "generate_migration_report">>

\* one phase of migrate_workspace
RunPhase(phase, st, self, preserve_originals) ==
    CASE phase = "validate_source_workspace" -> validate_source_workspace(st, self)
      [] phase = "create_target_structure" -> create_target_structure(st, self)
      [] phase = "migrate_core_files" -> migrate_core_files(st, self, preserve_originals)
      [] phase = "apply_quantum_enhancements" -> apply_quantum_enhancements(st, self)
      [] phase = "setup_enhanced_configuration" -> setup_enhanced_configuration(st, self)
      [] phase = "create_compatibility_layer" -> create_compatibility_layer(st, self)
      [] phase = "generate_migration_report" -> generate_migration_report(st, self)

\* the call after a phase, the phase and what it raised added to the log
Logged(phase, ran) == [ran EXCEPT !.log = Append(@, [phase |-> phase, raised |-> ran.raised])]

RECURSIVE try_block(_, _, _, _)
\* the try block of migrate_workspace: the phases in order, left at the first
\* that raises
try_block(st, self, phases, preserve_originals) ==
    IF phases = <<>> \/ st.raised # "" THEN st
    ELSE try_block(Logged(Head(phases), RunPhase(Head(phases), st, self, preserve_originals)),
                   self, Tail(phases), preserve_originals)

\* an except clause that only swallows the exception
except_clause_swallowing(migration_report, raised) == migration_report

\* the except clause of migrate_workspace: any Exception becomes the status
\* 'failed' and an 'error' entry
except_clause(migration_report, raised) ==
    [migration_report EXCEPT !.migration_status = "failed", !.error = <<raised>>]

\* migrate_workspace(preserve_originals, enable_quantum_features): the file
\* system it leaves, the phases it ran and the report it returns (error is
\* <<>> while the report has no 'error' key)
migrate_workspace(fs, self, preserve_originals, enable_quantum_features) ==
    LET migration_report == [source_workspace |-> self.source_workspace,
                             target_workspace |-> self.target_workspace,
                             quantum_features_enabled |-> enable_quantum_features,
                             files_migrated |-> <<>>,
                             migration_status |-> "in_progress",
                             error |-> <<>>]
        done == try_block([raised |-> "", fs |-> fs, log |-> <<>>], self,
                          PhasesOf(enable_quantum_features), preserve_originals)
    IN [fs |-> done.fs,
        log |-> done.log,
        report |-> IF done.raised # "" THEN except_clause(migration_report, done.raised)
                   ELSE [migration_report EXCEPT
                            !.files_migrated = [i \in DOMAIN migration_mapping |->
                                                   migration_mapping[i][1]],
                            !.migration_status = "completed"]]

(***************************************************************************)
(* ImplementationOrchestrator                                              *)
(* (practical_manifestation/implementation_orchestrator.py).               *)
(***************************************************************************)
\* the members of the enum OrchestrationPhase, in declaration order
OrchestrationPhase ==
    <<"CONSCIOUSNESS_ANALYSIS", "ARCHITECTURE_DESIGN", "CODE_GENERATION",
      "CONFIGURATION_SETUP", "INTEGRATION_TESTING", "REALITY_DEPLOYMENT">>

\* the methods the class ImplementationOrchestrator defines
OrchestratorMethods ==
    {"__init__", "orchestrate_implementation", "_analyze_consciousness",
     "_design_architecture", "_generate_code", "_design_quantum_analyzer_architecture",
     "get_orchestrator_status"}

\* the attributes __init__ reads for self.orchestration_phases, in the order
\* of the dict display
orchestration_phases ==
    <<"_analyze_consciousness", "_design_architecture", "_generate_code",
      "_setup_configuration", "_test_integration", "_deploy_to_reality">>

\* the keys of self.implementation_templates and the attributes read for them
implementation_templates ==
    << <<"quantum_analyzer", "_create_quantum_analyzer_template">>,
       <<"consciousness_integration", "_create_consciousness_integration_template">>,
       <<"repository_orchestrator", "_create_repository_orchestrator_template">>,
       <<"dimensional_bridge", "_create_dimensional_bridge_template">> >>

\* the implementation_type values the model passes: the default, a type with
\* a template and no architecture, and a type with neither
ImplementationTypes == {"quantum_analyzer", "consciousness_integration", "generic"}

\* the exception of reading the attributes in order: AttributeError at the
\* first the class does not define
Lookup(attributes) ==
    IF \E i \in DOMAIN attributes : attributes[i] \notin OrchestratorMethods
    THEN "AttributeError" ELSE ""

\* ImplementationOrchestrator.__init__: the two dict displays read their
\* bound methods before active_orchestrations is set
ImplementationOrchestrator_init ==
    LET raised == Lookup(orchestration_phases
                         \o [i \in DOMAIN implementation_templates |-> implementation_templates[i][2]])
    IN [raised |-> raised, active_orchestrations |-> <<>>]

\* _design_architecture: the method chosen by implementation_type
design_architecture(implementation_type) ==
    Lookup(<<CASE implementation_type = "quantum_analyzer" -> "_design_quantum_analyzer_architecture"
               [] implementation_type = "consciousness_integration" ->
                      "_design_consciousness_integration_architecture"
               [] implementation_type = "repository_orchestrator" ->
                      "_design_repository_orchestrator_architecture"
               [] OTHER -> "_design_generic_architecture">>)

\* _generate_code: the template of the type, or the generic template
generate_code(implementation_type) ==
    LET found == {i \in DOMAIN implementation_templates :
                     implementation_templates[i][1] = implementation_type}
    IN IF found # {}
       THEN Lookup(<<implementation_templates[CHOOSE i \in found : TRUE][2]>>)
       ELSE Lookup(<<"_create_generic_implementation_template">>)

\* what a phase raises: orchestration_phases[phase](...)
RunOrchestrationPhase(k, implementation_type) ==
    CASE k = 1 -> ""
      [] k = 2 -> design_architecture(implementation_type)
      [] k = 3 -> generate_code(implementation_type)
      [] OTHER -> Lookup(<<orchestration_phases[k]>>)

RECURSIVE phase_loop(_, _, _)
\* the loop of orchestrate_implementation from the k-th phase on: a phase
\* that returns is appended to phases_completed, one that raises ends the loop
phase_loop(k, implementation_type, phases_completed) ==
    IF k > Len(OrchestrationPhase) THEN phases_completed
    ELSE IF RunOrchestrationPhase(k, implementation_type) # "" THEN phases_completed
    ELSE phase_loop(k + 1, implementation_type, Append(phases_completed, OrchestrationPhase[k]))

\* orchestrate_implementation on a constructed orchestrator: after the loop
\* _calculate_consciousness_coherence is called, outside any try, before the
\* result is stored; _write_implementation_artifacts after it is stored
orchestrate_implementation(self, orchestration_id, implementation_type) ==
    LET phases_completed == phase_loop(1, implementation_type, <<>>)
        orchestration_result ==
            [orchestration_id |-> orchestration_id,
             phases_completed |-> phases_completed,
             reality_manifestation_success |-> Len(phases_completed) >= 4]
        coherence == Lookup(<<"_calculate_consciousness_coherence">>)
        written == Lookup(<<"_write_implementation_artifacts">>)
    IN IF coherence # ""
       THEN [raised |-> coherence, returned |-> <<>>,
             phases_completed |-> phases_completed,
             active_orchestrations |-> self.active_orchestrations]
       ELSE [raised |-> written,
             returned |-> IF written = "" THEN <<orchestration_result>> ELSE <<>>,
             phases_completed |-> phases_completed,
             active_orchestrations |-> (orchestration_id :> orchestration_result)
                                       @@ self.active_orchestrations]

\* orchestrate_implementation on the program's orchestrator: the constructor
\* runs first, and the object it made holds what earlier calls stored
construct_and_orchestrate(stored, orchestration_id, implementation_type) ==
    LET made == ImplementationOrchestrator_init
        self == [made EXCEPT !.active_orchestrations = stored]
    IN IF made.raised # ""
       THEN [raised |-> made.raised, returned |-> <<>>, phases_completed |-> <<>>,
             active_orchestrations |-> <<>>]
       ELSE orchestrate_implementation(self, orchestration_id, implementation_type)

(***************************************************************************)
(* State.                                                                  *)
(***************************************************************************)
VARIABLES
    constructed,               \* the class of the object under analysis
    repository_quantum_space,  \* OmnipresentRepoAnalyzer: the store, in dict order
    space_at_construction,     \* history: the store right after __init__
    analysis_call,             \* history: <<arguments>> of the last omnipresent_analysis
    analysis_result,           \* <<OmnipresentAnalysisResult>> it returned
    analysis_repeats,          \* history: the last call repeated the arguments of the one before
    quantum_mode,              \* QuantumHybridSearchClient: self.quantum_mode
    searxng_url,               \* self.searxng_url ("None" when not given)
    searxng_available,         \* self.searxng_available
    consciousness_filter_active,
    fourth_dimensional_awareness,
    searxng_index,             \* environment: the instance's answer to each layer's request
    search_call,               \* history: <<arguments>> of the last quantum_search
    search_outcome,            \* <<what it raised, the list it returned>>
    filter_call,               \* history: <<results>> of the last _apply_consciousness_filter
    filter_outcome,            \* <<the list it returned>>
    migrator,                  \* OB1WorkspaceMigrator: source_workspace and target_workspace
    file_system,               \* environment: the directories and files on disk
    file_system_before,        \* history: the disk when the last migrate_workspace began
    migration_call,            \* history: <<arguments>> of the last migrate_workspace
    migration_log,             \* history: the phases it ran and what each raised
    migration_report,          \* <<the report it returned>>
    active_orchestrations,     \* ImplementationOrchestrator: self.active_orchestrations
    orchestration_call,        \* history: <<arguments>> of the last orchestrate_implementation
    orchestration_calls,       \* history: the number of orchestrate_implementation calls made
    orchestration_outcome      \* <<what construction and the call raised and returned>>

analyzer_vars == <<repository_quantum_space, space_at_construction,
                   analysis_call, analysis_result, analysis_repeats>>

client_vars == <<quantum_mode, searxng_url, searxng_available,
                 consciousness_filter_active, fourth_dimensional_awareness,
                 searxng_index, search_call, search_outcome, filter_call, filter_outcome>>

migrator_vars == <<migrator, file_system, file_system_before, migration_call,
                   migration_log, migration_report>>

orchestrator_vars == <<active_orchestrations, orchestration_call, orchestration_calls,
                       orchestration_outcome>>

vars == <<constructed, analyzer_vars, client_vars, migrator_vars, orchestrator_vars>>

\* processing_dimension of omnipresent_analysis
ProcessingDimensionOf(analysis_scope) ==
    IF analysis_scope = "QUANTUM" THEN "QUANTUM"
    ELSE IF analysis_scope = "OMNIPRESENT" THEN "SIMULTANEOUS"
    ELSE "PARALLEL"

\* the store after the loop of _simultaneous_repository_analysis
SpaceAfterAnalysis(space, intent_vectors) ==
    [i \in DOMAIN space |->
        [space[i] EXCEPT !.signature =
            StoredAfterUpdate(@, calculate_intent_alignment(@, intent_vectors))]]

\* sum of a list of numbers
SumSeq(xs) == SumOver(DOMAIN xs, xs)

\* a mean that refuses an empty list, as statistics.mean does
np_mean_strict(xs) ==
    IF xs = <<>> THEN [raised |-> "StatisticsError", nan |-> FALSE, sum |-> 0, count |-> 0]
    ELSE [raised |-> "", nan |-> FALSE, sum |-> SumSeq(xs), count |-> Len(xs)]

\* np.mean of a list: the exact fraction sum/count; of an empty list it is
\* nan, given with a RuntimeWarning and without raising
np_mean(xs) ==
    [raised |-> "", nan |-> xs = <<>>, sum |-> SumSeq(xs), count |-> Len(xs)]

\* _generate_omnipresent_insights, its first insight: the average is taken
\* only of a non-empty list
average_consciousness(precision_results) ==
    IF precision_results # <<>>
    THEN np_mean([i \in DOMAIN precision_results |-> precision_results[i].consciousness_score])
    ELSE [raised |-> "", nan |-> FALSE, sum |-> 0, count |-> 1]

\* omnipresent_analysis(user_intent, analysis_scope, max_results): the store
\* it leaves and the OmnipresentAnalysisResult it returns (raised names the
\* exception that ended the call instead, "" when it returned)
omnipresent_analysis(space, user_intent, analysis_scope, max_results) ==
    LET intent_vectors == IntentVectorsOf[user_intent]
        analysis_results == simultaneous_repository_analysis(space, intent_vectors)
        precision_results == collapse_to_precision(analysis_results, max_results)
        insight == average_consciousness(precision_results)
        quantum_coherence_average ==
            np_mean([i \in DOMAIN precision_results |-> precision_results[i].quantum_coherence])
        raised == IF insight.raised # "" THEN insight.raised
                  ELSE quantum_coherence_average.raised
    IN [space_after |-> SpaceAfterAnalysis(space, intent_vectors),
        result |-> [raised |-> raised,
                    query_intent |-> user_intent,
                    processing_dimension |-> ProcessingDimensionOf(analysis_scope),
                    repositories_analyzed |-> Len(space),
                    precision_results |-> IF raised = "" THEN precision_results ELSE <<>>,
                    quantum_coherence_average |-> quantum_coherence_average]]

OmnipresentAnalysis(user_intent, analysis_scope, max_results) ==
    /\ constructed = "OmnipresentRepoAnalyzer"
    /\ \E out \in {omnipresent_analysis(repository_quantum_space, user_intent,
                                        analysis_scope, max_results)} :
          /\ repository_quantum_space' = out.space_after
          /\ analysis_result' = <<out.result>>
    /\ analysis_call' = <<[user_intent |-> user_intent,
                           analysis_scope |-> analysis_scope,
                           max_results |-> max_results]>>
    /\ analysis_repeats' = (analysis_call' = analysis_call)
    /\ UNCHANGED <<constructed, space_at_construction, client_vars, migrator_vars,
                   orchestrator_vars>>

\* no QuantumHybridSearchClient was constructed
NoClient ==
    /\ quantum_mode = ""
    /\ searxng_url = "None"
    /\ searxng_available = FALSE
    /\ consciousness_filter_active = FALSE
    /\ fourth_dimensional_awareness = FALSE
    /\ searxng_index = <<>>
    /\ search_call = <<>>
    /\ search_outcome = <<>>
    /\ filter_call = <<>>
    /\ filter_outcome = <<>>

\* no OB1WorkspaceMigrator was constructed
NoMigrator ==
    /\ migrator = <<>>
    /\ file_system = <<>>
    /\ file_system_before = <<>>
    /\ migration_call = <<>>
    /\ migration_log = <<>>
    /\ migration_report = <<>>

\* no ImplementationOrchestrator is being made
NoOrchestrator ==
    /\ active_orchestrations = <<>>
    /\ orchestration_call = <<>>
    /\ orchestration_calls = 0
    /\ orchestration_outcome = <<>>

\* OmnipresentRepoAnalyzer.__init__
InitAnalyzer ==
    /\ constructed = "OmnipresentRepoAnalyzer"
    /\ repository_quantum_space \in Stores
    /\ space_at_construction = repository_quantum_space
    /\ analysis_call = <<>>
    /\ analysis_result = <<>>
    /\ analysis_repeats = FALSE
    /\ NoClient
    /\ NoMigrator
    /\ NoOrchestrator

\* no OmnipresentRepoAnalyzer was constructed
NoAnalyzer ==
    /\ repository_quantum_space = <<>>
    /\ space_at_construction = <<>>
    /\ analysis_call = <<>>
    /\ analysis_result = <<>>
    /\ analysis_repeats = FALSE

\* an instance no request reaches
Unreachable == [l \in 1..Len(RealityLayers) |-> [error |-> "RequestException", results |-> <<>>]]

\* QuantumHybridSearchClient.__init__, with _check_searxng_availability: the
\* instance is probed only when a URL is given, and the index matters only to
\* a client that searches it
InitClient ==
    /\ constructed = "QuantumHybridSearchClient"
    /\ quantum_mode \in QuantumSearchModes
    /\ searxng_url \in {"None", "http://localhost:8080"}
    /\ searxng_available \in (IF searxng_url = "None" THEN {FALSE} ELSE BOOLEAN)
    /\ consciousness_filter_active = (quantum_mode # "LEGACY")
    /\ fourth_dimensional_awareness = (quantum_mode \in {"QUANTUM", "UNIFIED"})
    /\ searxng_index \in (IF searxng_available /\ fourth_dimensional_awareness
                          THEN [1..Len(RealityLayers) -> SearxngResponses]
                          ELSE {Unreachable})
    /\ search_call = <<>>
    /\ search_outcome = <<>>
    /\ filter_call = <<>>
    /\ filter_outcome = <<>>
    /\ NoAnalyzer
    /\ NoMigrator
    /\ NoOrchestrator

\* the ob1-files-workspace of the model and the places a migration is sent
\* to: the source itself, the default ./ProTechTimeNow_Migrated of a run
\* started inside the source, and the same default of a run started at the root
SourceWorkspace == "/ob1"

TargetWorkspaces == {"/ob1", "/ob1/ProTechTimeNow_Migrated", "/ProTechTimeNow_Migrated"}

\* the files a source workspace may hold: those of the mapping, a data file
\* and the enhanced analyzer an earlier migration in place has left
Ob1Files ==
    {migration_mapping[i][1] : i \in DOMAIN migration_mapping}
    \cup {"uploads/data.csv", "legacy_enhanced/quantum_universal_analyzer.py"}

\* the disk that holds the source workspace with the given files
DiskOf(files) ==
    [dirs |-> {SourceWorkspace}
              \cup UNION {PathParents(PathJoin(SourceWorkspace, f)) : f \in files},
     files |-> [p \in {PathJoin(SourceWorkspace, f) : f \in files} |-> <<"original of " \o p>>]]

\* a disk without the source workspace
EmptyDisk == [dirs |-> {}, files |-> [p \in {} |-> <<>>]]

\* OB1WorkspaceMigrator.__init__
InitMigrator ==
    /\ constructed = "OB1WorkspaceMigrator"
    /\ migrator \in [source_workspace : {SourceWorkspace}, target_workspace : TargetWorkspaces]
    /\ file_system \in {EmptyDisk} \cup {DiskOf(files) : files \in SUBSET Ob1Files}
    /\ file_system_before = file_system
    /\ migration_call = <<>>
    /\ migration_log = <<>>
    /\ migration_report = <<>>
    /\ NoAnalyzer
    /\ NoClient
    /\ NoOrchestrator

\* the class ImplementationOrchestrator before it is instantiated
InitOrchestrator ==
    /\ constructed = "ImplementationOrchestrator"
    /\ active_orchestrations = <<>>
    /\ orchestration_call = <<>>
    /\ orchestration_calls = 0
    /\ orchestration_outcome = <<>>
    /\ NoAnalyzer
    /\ NoClient
    /\ NoMigrator

Init == InitAnalyzer \/ InitClient \/ InitMigrator \/ InitOrchestrator

Analyze ==
    \E user_intent \in Intents, analysis_scope \in AnalysisScopes, max_results \in Limits :
        OmnipresentAnalysis(user_intent, analysis_scope, max_results)

\* quantum_search(query, search_dimension, consciousness_filter, max_results)
QuantumSearch(query, search_dimension, consciousness_filter, max_results) ==
    /\ constructed = "QuantumHybridSearchClient"
    /\ search_outcome' =
          <<quantum_search(query, search_dimension, consciousness_filter, max_results,
                           searxng_available, consciousness_filter_active,
                           fourth_dimensional_awareness, searxng_index)>>
    /\ search_call' = <<[query |-> query,
                         search_dimension |-> search_dimension,
                         consciousness_filter |-> consciousness_filter,
                         max_results |-> max_results]>>
    /\ UNCHANGED <<constructed, analyzer_vars, quantum_mode, searxng_url,
                   searxng_available, consciousness_filter_active,
                   fourth_dimensional_awareness, searxng_index, filter_call,
                   filter_outcome, migrator_vars, orchestrator_vars>>

Search ==
    \E query \in Queries, search_dimension \in SearchDimensions,
       consciousness_filter \in BOOLEAN, max_results \in Limits :
        QuantumSearch(query, search_dimension, consciousness_filter, max_results)

\* migrate_workspace(preserve_originals, enable_quantum_features)
MigrateWorkspace(preserve_originals, enable_quantum_features) ==
    /\ constructed = "OB1WorkspaceMigrator"
    /\ \E out \in {migrate_workspace(file_system, migrator, preserve_originals,
                                     enable_quantum_features)} :
          /\ file_system' = out.fs
          /\ migration_log' = out.log
          /\ migration_report' = <<out.report>>
    /\ file_system_before' = file_system
    /\ migration_call' = <<[preserve_originals |-> preserve_originals,
                            enable_quantum_features |-> enable_quantum_features]>>
    /\ UNCHANGED <<constructed, migrator, analyzer_vars, client_vars, orchestrator_vars>>

Migrate ==
    \E preserve_originals \in BOOLEAN, enable_quantum_features \in BOOLEAN :
        MigrateWorkspace(preserve_originals, enable_quantum_features)

\* the orchestration_id of a call: impl_ and the second it began in
OrchestrationIds == {"impl_20261105_120000", "impl_20261105_120001"}

\* ImplementationOrchestrator() and orchestrate_implementation on it
OrchestrateImplementation(orchestration_id, implementation_type) ==
    /\ constructed = "ImplementationOrchestrator"
    /\ orchestration_calls < MaxCalls
    /\ orchestration_calls' = orchestration_calls + 1
    /\ \E out \in {construct_and_orchestrate(active_orchestrations, orchestration_id,
                                             implementation_type)} :
          /\ orchestration_outcome' = <<out>>
          /\ active_orchestrations' = out.active_orchestrations
    /\ orchestration_call' = <<[orchestration_id |-> orchestration_id,
                                implementation_type |-> implementation_type]>>
    /\ UNCHANGED <<constructed, analyzer_vars, client_vars, migrator_vars>>

Orchestrate ==
    \E orchestration_id \in OrchestrationIds, implementation_type \in ImplementationTypes :
        OrchestrateImplementation(orchestration_id, implementation_type)

Next == Analyze \/ Search \/ Migrate \/ Orchestrate

Spec == Init /\ [][Next]_vars

\* the numbers of quantum_search_patterns keywords a result may match: its
\* consciousness_resonance is that number over the number of keywords, which
\* is just below 0.1 or 0.3 for 1 and 4 and just above for 2 and 5
Indicators == {1, 2, 4, 5}

\* the keywords of quantum_search_patterns
TotalIndicators ==
    SumOver(DOMAIN quantum_search_patterns,
            [pattern_name \in DOMAIN quantum_search_patterns |->
                Len(quantum_search_patterns[pattern_name])])

\* the result lists _apply_consciousness_filter is called on: up to
\* MaxResults results with different URLs, of which the filter reads the
\* consciousness_resonance
FilterInputs ==
    UNION {{[i \in 1..n |->
                [url |-> "https://example.org/" \o Char("123456789", i),
                 consciousness_resonance |-> (matched[i] * SearchScale) \div TotalIndicators]] :
            matched \in [1..n -> Indicators]} :
           n \in 0..MaxResults}

\* _apply_consciousness_filter(results, query) called on the client
ApplyConsciousnessFilter(results) ==
    /\ constructed = "QuantumHybridSearchClient"
    /\ filter_call' = <<results>>
    /\ filter_outcome' = <<apply_consciousness_filter(results, consciousness_filter_active)>>
    /\ UNCHANGED <<constructed, analyzer_vars, quantum_mode, searxng_url,
                   searxng_available, consciousness_filter_active,
                   fourth_dimensional_awareness, searxng_index, search_call,
                   search_outcome, migrator_vars, orchestrator_vars>>

Filter == \E results \in FilterInputs : ApplyConsciousnessFilter(results)

\* a client of each mode, made without a SearXNG URL: the filter reads
\* nothing of the client but consciousness_filter_active
InitFilter == InitClient /\ searxng_url = "None"

\* the filter called directly, on any list, on a client of any mode
FilterSpec == InitFilter /\ [][Filter]_vars

(***************************************************************************)
(* Properties.                                                             *)
(***************************************************************************)
\* omnipresent_analysis has returned
Analyzed == analysis_result # <<>>

\* the precision_results of the last omnipresent_analysis
Precision == analysis_result[1].precision_results

\* the scored, sorted candidates the last omnipresent_analysis ranked
Scored ==
    simultaneous_repository_analysis(repository_quantum_space,
                                     IntentVectorsOf[analysis_call[1].user_intent])

\* quantum_search has returned a list
Returned == search_outcome # <<>> /\ search_outcome[1].raised = ""

\* the list the last quantum_search returned
Found == search_outcome[1].results

\* the de-duplicated candidates the last quantum_search ranked
Synthesized ==
    synthesize_dimensional_results(
        reality_layer_results(search_call[1].query, searxng_available, searxng_index))

\* the key of repository_quantum_space a signature is stored under
KeyOfUrl(url) == SubSeq(url, Len("https://github.com/") + 1, Len(url))

\* C1: for a limit max_results >= 1, the list the ranking step returns is no
\* longer than max_results, in the analyzer and in the search client.
C1_LengthWithinLimit ==
    /\ (Analyzed /\ analysis_call[1].max_results >= 1)
            => Len(Precision) <= analysis_call[1].max_results
    /\ (Returned /\ search_call[1].max_results >= 1)
            => Len(Found) <= search_call[1].max_results

\* C1 witness: more candidates passed the filter than the limit allows, and
\* the returned list was cut to the limit.
C1_Witness ==
    /\ Analyzed
    /\ analysis_call[1].max_results >= 1
    /\ Len(SelectSeq(Scored, PassesRelaxed)) > analysis_call[1].max_results
    /\ Len(Precision) = analysis_call[1].max_results

\* C2: precision_results is ordered by score descending, and candidates of
\* equal score appear in ascending order of their repository key.
C2_RankedByScoreThenId ==
    Analyzed =>
        \A i, j \in DOMAIN Precision :
            i < j =>
                \/ Precision[i].consciousness_score > Precision[j].consciousness_score
                \/ /\ Precision[i].consciousness_score = Precision[j].consciousness_score
                   /\ StrLess(KeyOfUrl(Precision[i].repo_url), KeyOfUrl(Precision[j].repo_url))

\* C3: with a non-empty candidate set and max_results >= 1 the ranking never
\* returns an empty list, in the analyzer and in the search client.
C3_NeverEmptyWhenCandidatesExist ==
    /\ (Analyzed /\ Len(repository_quantum_space) > 0 /\ analysis_call[1].max_results >= 1)
            => Precision # <<>>
    /\ (Returned /\ Synthesized # <<>> /\ search_call[1].max_results >= 1)
            => Found # <<>>

\* C4: when fewer than max_results candidates pass the primary filter, the
\* result is the first max_results, in score order, of all candidates with
\* score >= 0.5; otherwise every returned candidate passes the primary
\* filter.  With 5 candidates, 1 of score >= 0.7, 4 of score >= 0.5 and
\* max_results = 3, the result has 3 elements, each of score >= 0.5.
C4_RelaxationRefiltersFullSet ==
    Analyzed =>
        LET max_results == analysis_call[1].max_results
            primary == SelectSeq(Scored, PassesPrimary)
            high == SelectSeq(Scored, LAMBDA r :
                        r.consciousness_score >= QualityThreshold * Hundredth)
            relaxed == SelectSeq(Scored, PassesRelaxed)
        IN  /\ Len(primary) < max_results => Precision = SliceTo(relaxed, max_results)
            /\ Len(primary) >= max_results
                    => \A i \in DOMAIN Precision : PassesPrimary(Precision[i])
            /\ (Len(Scored) = 5 /\ Len(high) = 1 /\ Len(relaxed) = 4 /\ max_results = 3)
                    => /\ Len(Precision) = 3
                       /\ \A i \in DOMAIN Precision : PassesRelaxed(Precision[i])

\* C4 witness: the store of the example (5 candidates, 1 above 0.7, 4 above
\* 0.5) ranked with max_results = 3, the relaxed filter supplying candidates
\* the primary filter rejected.
C4_Witness ==
    /\ Analyzed
    /\ analysis_call[1].max_results = 3
    /\ Len(Scored) = 5
    /\ Len(SelectSeq(Scored, LAMBDA r :
                r.consciousness_score >= QualityThreshold * Hundredth)) = 1
    /\ Len(SelectSeq(Scored, PassesRelaxed)) = 4
    /\ Len(Precision) = 3
    /\ \E i \in DOMAIN Precision : ~PassesPrimary(Precision[i])

\* C5: if max_results is at least the number of candidates and every
\* candidate scores 0, the result holds every candidate exactly once.
C5_AllZeroScoresReturnAll ==
    (/\ Analyzed
     /\ analysis_call[1].max_results >= Len(repository_quantum_space)
     /\ \A i \in DOMAIN Scored : Scored[i].consciousness_score = 0)
        => /\ Len(Precision) = Len(repository_quantum_space)
           /\ {Precision[i].repo_url : i \in DOMAIN Precision}
                = {repository_quantum_space[i].signature.repo_url :
                        i \in DOMAIN repository_quantum_space}

\* the ordered (repository, score) pairs of a precision_results list
RankedPairs(precision_results) ==
    [i \in DOMAIN precision_results |->
        <<precision_results[i].repo_url, precision_results[i].consciousness_score>>]

\* C6: omnipresent_analysis is idempotent and deterministic: whatever calls
\* the analyzer served before, a call returns the ordered (repository, score)
\* pairs the same call returns on the freshly constructed analyzer; a call
\* that repeats the arguments of the one before returns the same pairs.
C6_RankingIdempotent ==
    Analyzed =>
        RankedPairs(Precision)
            = RankedPairs(omnipresent_analysis(space_at_construction,
                                               analysis_call[1].user_intent,
                                               analysis_call[1].analysis_scope,
                                               analysis_call[1].max_results)
                            .result.precision_results)

\* C6 witness: a second call with the arguments of the first has returned a
\* non-empty ranking.
C6_Witness ==
    /\ Analyzed
    /\ analysis_repeats
    /\ Len(Precision) >= 2

\* C7: scoring mutates no candidate: after any sequence of
\* omnipresent_analysis calls the store has the keys and every stored
\* signature has the field values it had right after construction.
C7_StoreNeverMutated ==
    /\ Len(repository_quantum_space) = Len(space_at_construction)
    /\ \A i \in DOMAIN repository_quantum_space :
        /\ repository_quantum_space[i].key = space_at_construction[i].key
        /\ \A field \in {"consciousness_score", "worthiness_matrix", "synergy_potential",
                         "integration_complexity", "quantum_coherence",
                         "dimensional_coordinates"} :
              repository_quantum_space[i].signature[field]
                = space_at_construction[i].signature[field]

\* C7 witness: a returned scored copy carries a score other than the one its
\* repository is stored with.
C7_Witness ==
    /\ Analyzed
    /\ \E i \in DOMAIN Precision, j \in DOMAIN repository_quantum_space :
        /\ Precision[i].repo_url = repository_quantum_space[j].signature.repo_url
        /\ Precision[i].consciousness_score
                # repository_quantum_space[j].signature.consciousness_score

\* C8: every relevance score lies in [0, 1]: the intent alignment of every
\* stored repository under every intent-vector map, and the quantum relevance
\* and consciousness resonance of every raw result under every query.
C8_ScoresInUnitInterval ==
    /\ \A i \in DOMAIN repository_quantum_space, user_intent \in Intents :
        LET alignment == calculate_intent_alignment(repository_quantum_space[i].signature,
                                                    IntentVectorsOf[user_intent])
        IN 0 <= alignment /\ alignment <= ScoreScale
    /\ Analyzed =>
        \A i \in DOMAIN Precision :
            /\ 0 <= Precision[i].consciousness_score
            /\ Precision[i].consciousness_score <= ScoreScale
    /\ Returned =>
        \A l \in 1..Len(RealityLayers) :
            LET results == reality_layer_results(search_call[1].query, searxng_available,
                                                 searxng_index)[l].results
            IN \A i \in DOMAIN results :
                /\ 0 <= results[i].relevance_score
                /\ results[i].relevance_score <= SearchScale
                /\ 0 <= results[i].consciousness_resonance
                /\ results[i].consciousness_resonance <= SearchScale

\* C8 witness: a returned candidate whose summed alignment factors exceed 1
\* carries the score 1.
C8_Witness ==
    /\ Analyzed
    /\ \E i \in DOMAIN Precision, j \in DOMAIN repository_quantum_space :
        /\ Precision[i].repo_url = repository_quantum_space[j].signature.repo_url
        /\ AlignmentSum(repository_quantum_space[j].signature,
                        IntentVectorsOf[analysis_call[1].user_intent]) > ScoreScale
        /\ Precision[i].consciousness_score = ScoreScale

\* C9: the combined score the search results are ranked by lies in [0, 1]
\* for every search result.
C9_QuantumScoreInUnitInterval ==
    Returned =>
        \A i \in DOMAIN Found :
            /\ 0 <= quantum_score(Found[i])
            /\ quantum_score(Found[i]) <= 10 * SearchScale

\* C10: a limit max_results <= 0 is treated as 1: the ranking returns the
\* list it returns for max_results = 1, in the analyzer and the search client.
C10_NonPositiveLimitIsOne ==
    /\ (Analyzed /\ analysis_call[1].max_results <= 0)
            => Precision = omnipresent_analysis(repository_quantum_space,
                                                analysis_call[1].user_intent,
                                                analysis_call[1].analysis_scope,
                                                1).result.precision_results
    /\ (Returned /\ search_call[1].max_results <= 0)
            => Found = quantum_search(search_call[1].query,
                                      search_call[1].search_dimension,
                                      search_call[1].consciousness_filter,
                                      1, searxng_available, consciousness_filter_active,
                                      fourth_dimensional_awareness, searxng_index).results


\* C11: an empty candidate store is no error: omnipresent_analysis on an
\* empty repository_quantum_space returns with precision_results = [] and
\* repositories_analyzed = 0, and the search client's filter and collapse
\* applied to an empty list return an empty list.
C11_EmptyStoreReturnsEmpty ==
    /\ (Analyzed /\ repository_quantum_space = <<>>)
            => /\ analysis_result[1].raised = ""
               /\ Precision = <<>>
               /\ analysis_result[1].repositories_analyzed = 0
    /\ (Returned /\ Synthesized = <<>>) => Found = <<>>
    /\ \A filter_active \in BOOLEAN, max_results \in Limits :
            search_collapse_to_precision(
                apply_consciousness_filter(<<>>, filter_active), max_results) = <<>>

\* C11 witness: omnipresent_analysis has returned on an empty store, its
\* coherence average the nan of an empty mean.
C11_Witness ==
    /\ Analyzed
    /\ repository_quantum_space = <<>>
    /\ analysis_result[1].quantum_coherence_average.nan

\* the layer result lists asyncio.gather handed to the last quantum_search
Gathered ==
    reality_layer_results(search_call[1].query, searxng_available, searxng_index)

\* lines 142-149 of _fourth_dimensional_search applied to layer result lists:
\* synthesis, the filter if asked for, and _collapse_to_precision
RankLayers(layer_results) ==
    LET synthesized_results == synthesize_dimensional_results(layer_results)
        filtered == IF search_call[1].consciousness_filter
                    THEN apply_consciousness_filter(synthesized_results,
                                                    consciousness_filter_active)
                    ELSE synthesized_results
    IN search_collapse_to_precision(filtered, search_call[1].max_results)

\* C12: the final ranking of a fourth-dimensional search does not depend on
\* the merge order: for every permutation of the layer result lists handed
\* to _synthesize_dimensional_results, de-duplication, filtering and
\* _collapse_to_precision return the list the search returned.
C12_MergeOrderIndependent ==
    Returned =>
        \A p \in Permutations(1..Len(RealityLayers)) :
            RankLayers([l \in 1..Len(RealityLayers) |-> Gathered[p[l]]]) = Found

\* the last call was a fourth-dimensional quantum_search
FourthDimensional ==
    /\ search_outcome # <<>>
    /\ search_call[1].search_dimension = "FOURTH_D"
    /\ fourth_dimensional_awareness

\* the layers whose search failed: the SearXNG request failed or the task raised
FailedLayers ==
    {l \in 1..Len(RealityLayers) : searxng_available /\ searxng_index[l].error # ""}

\* the task outcomes of the layers whose search did not fail, in task order
Unfailed ==
    SelectSeq([l \in 1..Len(RealityLayers) |->
                    [raised |-> IF l \in FailedLayers THEN "failed" ELSE "",
                     results |-> LayerResultsOf[<<search_call[1].query, l,
                                    IF searxng_available
                                    THEN searxng_index[l].results
                                    ELSE web_search_fallback(
                                            enhance_query_for_layer(search_call[1].query,
                                                                    RealityLayers[l]))>>]]],
              LAMBDA o : o.raised = "")

\* C13: a failing search source is never fatal: when the SearXNG request of
\* a layer fails or the layer's task raises, the fourth-dimensional
\* quantum_search raises nothing, the failing layer contributes no
\* candidate, and the returned list is the ranking of the other layers'
\* results.
C13_FailingSourceNeverFatal ==
    FourthDimensional =>
        /\ search_outcome[1].raised = ""
        /\ \A l \in FailedLayers : Gathered[l].results = <<>>
        /\ Found = RankLayers(Unfailed)

\* C13 witness: one layer's request failed, another layer's task raised, a
\* third layer answered, and the search returned the third layer's results.
C13_Witness ==
    /\ FourthDimensional
    /\ \E l \in FailedLayers : searxng_index[l].error = "RequestException"
    /\ \E l \in FailedLayers : Gathered[l].raised = "AttributeError"
    /\ FailedLayers # 1..Len(RealityLayers)
    /\ search_outcome[1].raised = ""
    /\ Found # <<>>

\* the raw results a layer search of the model can see for the empty query
RawResultsForEmptyQuery ==
    {RawRich, RawPlain, RawMid}
        \cup {web_search_fallback(enhance_query_for_layer("", RealityLayers[l]))[1] :
                    l \in 1..Len(RealityLayers)}

\* scoring of the empty string: it splits into zero tokens,
\* _parse_intent_vectors gives 0 for every pattern and no focus vector, and
\* _calculate_quantum_relevance is the consciousness boost alone (a base
\* relevance of 0 over the divisor 0 + 5)
EmptyQueryScoring ==
    /\ Split(Lower("")) = <<>>
    /\ parse_intent_vectors("") = [pattern_name \in DOMAIN consciousness_patterns |-> 0]
    /\ \A result \in RawResultsForEmptyQuery :
            LET matches == [pattern_name \in DOMAIN quantum_search_patterns |->
                                PatternMatches(result, pattern_name)]
                consciousness_boost == SumOver(DOMAIN matches, matches) * (SearchScale \div 10)
            IN calculate_quantum_relevance(result, "")
                    = Min(consciousness_boost, SearchScale)

\* C14: an empty query string is zero tokens and never fails:
\* _parse_intent_vectors("") is 0 for every pattern, without focus vectors,
\* _calculate_quantum_relevance has base relevance 0 for it, and the ranking
\* proceeds: omnipresent_analysis("") and the fourth-dimensional
\* quantum_search("") return their result.
C14_EmptyQueryNeverFails ==
    /\ EmptyQueryScoring
    /\ (Analyzed /\ analysis_call[1].user_intent = "")
            => /\ analysis_result[1].raised = ""
               /\ Precision = collapse_to_precision(
                                 simultaneous_repository_analysis(
                                     repository_quantum_space,
                                     [pattern_name \in DOMAIN consciousness_patterns |-> 0]),
                                 analysis_call[1].max_results)
    /\ (FourthDimensional /\ search_call[1].query = "")
            => search_outcome[1].raised = ""

\* C14 witness: a fourth-dimensional search of the SearXNG instance with the
\* empty string has returned a non-empty list.
C14_Witness ==
    /\ FourthDimensional
    /\ search_call[1].query = ""
    /\ searxng_available
    /\ search_outcome[1].raised = ""
    /\ Found # <<>>

\* C15: for every quantum mode of the client and every search_dimension,
\* quantum_search completes and returns a list instead of ending in an error.
C15_EveryModeAndDimensionReturns ==
    search_outcome # <<>> => search_outcome[1].raised = ""

\* the places <<layer, index>> of the results in the lists of the layers
\* whose task returned a list
Places ==
    UNION {{<<l, i>> : i \in DOMAIN Gathered[l].results} :
           l \in {k \in 1..Len(RealityLayers) : Gathered[k].raised = ""}}

\* the result at a place
ResultAt(place) == Gathered[place[1]].results[place[2]]

\* place c comes no later than place d in layer order
NoLater(c, d) == c[1] < d[1] \/ (c[1] = d[1] /\ c[2] <= d[2])

\* C23: the list _synthesize_dimensional_results produces holds each
\* distinct URL of the successful layers' result lists exactly once, as the
\* first result with that URL in layer order; no two of its results share a
\* URL.
C23_EachUrlOnceFirstInLayerOrder ==
    FourthDimensional =>
        /\ \A j, k \in DOMAIN Synthesized :
              Synthesized[j].url = Synthesized[k].url => j = k
        /\ {Synthesized[j].url : j \in DOMAIN Synthesized}
              = {ResultAt(c).url : c \in Places}
        /\ \A j \in DOMAIN Synthesized :
              \E c \in Places :
                  /\ ResultAt(c) = Synthesized[j]
                  /\ \A d \in Places : ResultAt(d).url = ResultAt(c).url => NoLater(c, d)

\* C23 witness: two layers returned different results for one URL, another
\* layer failed, and the synthesis kept the result of the earlier layer only.
C23_Witness ==
    /\ FourthDimensional
    /\ FailedLayers # {}
    /\ \E c, d \in Places :
          /\ c[1] < d[1]
          /\ ResultAt(c).url = ResultAt(d).url
          /\ ResultAt(c) # ResultAt(d)
          /\ \E j \in DOMAIN Synthesized : Synthesized[j] = ResultAt(c)
          /\ \A j \in DOMAIN Synthesized : Synthesized[j] # ResultAt(d)
    /\ Len(Synthesized) < Cardinality(Places)

(***************************************************************************)
(* The workspace migration.                                                *)
(***************************************************************************)
\* migrate_workspace has returned
Migrated == migration_report # <<>>

\* the paths of a disk, directories and files
PathsOf(fs) == fs.dirs \cup DOMAIN fs.files

\* the paths the last migrate_workspace created, removed or rewrote
Touched ==
    {p \in PathsOf(file_system_before) \cup PathsOf(file_system) :
        \/ (p \in file_system_before.dirs) # (p \in file_system.dirs)
        \/ (p \in DOMAIN file_system_before.files) # (p \in DOMAIN file_system.files)
        \/ /\ p \in DOMAIN file_system_before.files
           /\ p \in DOMAIN file_system.files
           /\ file_system_before.files[p] # file_system.files[p]}

\* what lay under the source workspace when the call began is as it was
SourceUntouched ==
    /\ \A d \in file_system_before.dirs :
          IsUnder(d, migrator.source_workspace) => d \in file_system.dirs
    /\ \A f \in DOMAIN file_system_before.files :
          IsUnder(f, migrator.source_workspace) =>
              /\ f \in DOMAIN file_system.files
              /\ file_system.files[f] = file_system_before.files[f]

\* C16: migrate_workspace never deletes, overwrites or modifies a file or
\* directory under the source workspace, whatever the source and the target
\* are, and everything it writes, copies to or removes lies under the target
\* workspace.
C16_SourceWorkspaceUntouched ==
    Migrated =>
        /\ SourceUntouched
        /\ \A p \in Touched : IsUnder(p, migrator.target_workspace)

\* every phase the last call ran finished without raising
AllPhasesFinished == \A i \in DOMAIN migration_log : migration_log[i].raised = ""

\* C17: migrate_workspace always returns a report: its migration_status is
\* 'completed' exactly when every phase it executed finished without raising
\* (and then all phases were executed), 'failed' with an 'error' entry
\* otherwise, never 'in_progress'; the phases run in order and none runs
\* after one that raised.
C17_ReportAlwaysReturned ==
    migration_call # <<>> =>
        /\ Migrated
        /\ LET report == migration_report[1]
               phases == PhasesOf(migration_call[1].enable_quantum_features)
           IN /\ report.migration_status \in {"completed", "failed"}
              /\ (report.migration_status = "completed") <=> AllPhasesFinished
              /\ (report.migration_status = "failed") <=> (report.error # <<>>)
              /\ AllPhasesFinished => Len(migration_log) = Len(phases)
              /\ Len(migration_log) <= Len(phases)
              /\ \A i \in DOMAIN migration_log :
                    /\ migration_log[i].phase = phases[i]
                    /\ migration_log[i].raised # "" =>
                          /\ i = Len(migration_log)
                          /\ report.error = <<migration_log[i].raised>>

\* a migration whose third phase raised after the first two had finished is
\* reported as failed with the error
C17_Witness ==
    /\ Migrated
    /\ migration_report[1].migration_status = "failed"
    /\ migration_report[1].error = <<"AttributeError">>
    /\ Len(migration_log) = 3
    /\ migration_log[1].raised = ""
    /\ migration_log[2].raised = ""
    /\ migration_log[3] = [phase |-> "migrate_core_files", raised |-> "AttributeError"]

\* the entries of the mapping whose source file was missing when the last
\* call began
MissingFiles ==
    {i \in DOMAIN migration_mapping :
        ~PathExists(file_system_before,
                    PathJoin(migrator.source_workspace, migration_mapping[i][1]))}

\* C18: when the source workspace exists and files of the mapping are missing
\* from it, a default enhanced version of each missing file is created at its
\* target path and the migration ends with migration_status 'completed'.
C18_MissingFilesGetDefaults ==
    (/\ Migrated
     /\ PathExists(file_system_before, migrator.source_workspace)
     /\ MissingFiles # {}) =>
        /\ migration_report[1].migration_status = "completed"
        /\ \A i \in MissingFiles :
              PathJoin(migrator.target_workspace, migration_mapping[i][2])
                  \in DOMAIN file_system.files

\* the blocks of part occur in whole, in order and side by side
ContainsContent(whole, part) ==
    \E k \in 0..(Len(whole) - Len(part)) : SubSeq(whole, k + 1, k + Len(part)) = part

\* C19: when the source has platform/.env.template, the target .env.template
\* holds its content after migrate_workspace: what the file migration wrote
\* from it is still there after the enhanced configuration was set up.
C19_ConfigurationSurvives ==
    LET source_env == PathJoin(migrator.source_workspace, "platform/.env.template")
        env_file == PathJoin(migrator.target_workspace, ".env.template")
    IN (Migrated /\ source_env \in DOMAIN file_system_before.files) =>
           /\ env_file \in DOMAIN file_system.files
           /\ ContainsContent(file_system.files[env_file], file_system_before.files[source_env])

\* C22: when the source workspace does not exist, migrate_workspace returns
\* migration_status 'failed' with the error of the validation recorded, the
\* validation is the only phase that ran, and no directory or file was
\* created under the target workspace.
C22_MissingSourceCreatesNothing ==
    (Migrated /\ ~PathExists(file_system_before, migrator.source_workspace)) =>
        /\ migration_report[1].migration_status = "failed"
        /\ migration_report[1].error = <<"FileNotFoundError">>
        /\ migration_log = <<[phase |-> "validate_source_workspace",
                              raised |-> "FileNotFoundError"]>>
        /\ \A p \in PathsOf(file_system) :
              IsUnder(p, migrator.target_workspace) => p \in PathsOf(file_system_before)
        /\ file_system = file_system_before

\* C22 witness: a migration to a target apart from the source was called on
\* a disk without the source workspace and returned 'failed'.
C22_Witness ==
    /\ Migrated
    /\ ~PathExists(file_system_before, migrator.source_workspace)
    /\ migrator.target_workspace = "/ProTechTimeNow_Migrated"
    /\ migration_report[1].migration_status = "failed"
    /\ ~PathExists(file_system, migrator.target_workspace)

(***************************************************************************)
(* The implementation orchestrator.                                        *)
(***************************************************************************)
\* s is a prefix of t
IsPrefix(s, t) == Len(s) <= Len(t) /\ SubSeq(t, 1, Len(s)) = s

\* C20: orchestrate_implementation runs the six phases in declaration order
\* up to the first that raises: phases_completed is a prefix of the declared
\* order, and the result is returned and stored in active_orchestrations
\* under its orchestration_id also when a phase fails.
C20_PhasesCompletedIsPrefix ==
    orchestration_call # <<>> =>
        LET out == orchestration_outcome[1]
            orchestration_id == orchestration_call[1].orchestration_id
        IN /\ out.raised = ""
           /\ out.returned # <<>>
           /\ IsPrefix(out.returned[1].phases_completed, OrchestrationPhase)
           /\ orchestration_id \in DOMAIN active_orchestrations
           /\ active_orchestrations[orchestration_id] = out.returned[1]

\* C21: every orchestrate_implementation call leaves its own entry in
\* active_orchestrations: after n calls the map holds n results, the entry of
\* the last call among them, whether or not phases failed.
C21_EveryCallLeavesItsEntry ==
    orchestration_call # <<>> =>
        /\ Cardinality(DOMAIN active_orchestrations) = orchestration_calls
        /\ orchestration_call[1].orchestration_id \in DOMAIN active_orchestrations

(***************************************************************************)
(* The consciousness filter, called directly.                              *)
(***************************************************************************)
\* the positions of the filter's input whose resonance is at least the
\* threshold, given in hundredths
Passing(threshold) ==
    {i \in DOMAIN filter_call[1] :
        filter_call[1][i].consciousness_resonance * 100 >= threshold * SearchScale}

\* the positions the filter has to keep
Kept ==
    IF quantum_mode = "LEGACY" THEN DOMAIN filter_call[1]
    ELSE IF Cardinality(Passing(30)) >= 3 THEN Passing(30)
    ELSE IF Passing(10) # {} THEN Passing(10)
    ELSE DOMAIN filter_call[1]

\* C24: _apply_consciousness_filter returns a sub-list of its input in input
\* order: the results with resonance >= 0.3 when there are at least 3 of
\* them, otherwise those with resonance >= 0.1, otherwise the whole input;
\* on a client constructed in LEGACY mode it returns the input unchanged.
C24_FilterReturnsSublist ==
    filter_call # <<>> =>
        filter_outcome[1] =
            SelectSeq(filter_call[1],
                      LAMBDA result : \E i \in Kept : filter_call[1][i] = result)

\* C24 witness: on a client that filters, three of four results reached 0.3
\* and the one between 0.1 and 0.3 was dropped.
C24_Witness ==
    /\ filter_call # <<>>
    /\ quantum_mode # "LEGACY"
    /\ Len(filter_call[1]) = 4
    /\ Cardinality(Passing(30)) = 3
    /\ Cardinality(Passing(10)) = 4
    /\ Len(filter_outcome[1]) = 3
    /\ filter_outcome[1][3] = filter_call[1][4]

====
